---- MODULE Spec2Model ----
(***************************************************************************)
(* Outfit Builder API (server.py): POST /build-outfits.                    *)
(*                                                                         *)
(* Text is a sequence of lexical units [k |-> kind, s |-> payload]:        *)
(*   sp    one run of JSON whitespace (space, tab, LF, CR)                 *)
(*   nbsp  one whitespace character that str.strip() removes but the JSON  *)
(*         grammar rejects (U+00A0, form feed, ...)                        *)
(*   tick  one backtick                                                    *)
(*   word  a run of letters ("json", "null", "not", ...)                   *)
(*   lbr rbr lbc rbc comma colon   [ ] { } , :                             *)
(*   str   a JSON string literal with contents s                           *)
(*   num   a JSON integer literal with digits s                            *)
(*   text  a fixed block of the prompt template                            *)
(*                                                                         *)
(* A decoded JSON value is a record tagged with its Python type:           *)
(*   [t |-> "str", s], [t |-> "int", s], [t |-> "NoneType"],               *)
(*   [t |-> "list", a |-> <<values>>],                                     *)
(*   [t |-> "dict", d |-> <<[key, val], ...>>]  (insertion ordered)        *)
(*                                                                         *)
(* Library behaviour is that of the current releases: pydantic 2 (lax      *)
(* mode, extra keys ignored), Starlette's HTTPException.__str__.           *)
(***************************************************************************)
EXTENDS Integers, Sequences, FiniteSets, TLC

Tok(k, s) == [k |-> k, s |-> s]
SP    == Tok("sp", "")
NBSP  == Tok("nbsp", "")
TICK  == Tok("tick", "")
LBR   == Tok("lbr", "")
RBR   == Tok("rbr", "")
LBC   == Tok("lbc", "")
RBC   == Tok("rbc", "")
COMMA == Tok("comma", "")
COLON == Tok("colon", "")
Word(s)   == Tok("word", s)
StrLit(s) == Tok("str", s)
NumLit(s) == Tok("num", s)

JStr(s)  == [t |-> "str", s |-> s]
JInt(s)  == [t |-> "int", s |-> s]
JNone    == [t |-> "NoneType"]
JList(a) == [t |-> "list", a |-> a]
JDict(d) == [t |-> "dict", d |-> d]
KV(k, v) == [key |-> k, val |-> v]

(***************************************************************************)
(* str.strip(), str.removeprefix(), str.removesuffix()                     *)
(***************************************************************************)
isspace(c) == c.k \in {"sp", "nbsp"}

RECURSIVE lstrip(_)
lstrip(t) ==
  IF t # <<>> /\ isspace(Head(t)) THEN lstrip(Tail(t)) ELSE t

RECURSIVE rstrip(_)
rstrip(t) ==
  IF t # <<>> /\ isspace(t[Len(t)]) THEN rstrip(SubSeq(t, 1, Len(t) - 1)) ELSE t

strip(t) == rstrip(lstrip(t))

startswith(t, p) == Len(t) >= Len(p) /\ SubSeq(t, 1, Len(p)) = p
endswith(t, s)   == Len(t) >= Len(s) /\ SubSeq(t, Len(t) - Len(s) + 1, Len(t)) = s

removeprefix(t, p) ==
  IF startswith(t, p) THEN SubSeq(t, Len(p) + 1, Len(t)) ELSE t

removesuffix(t, s) ==
  IF s # <<>> /\ endswith(t, s) THEN SubSeq(t, 1, Len(t) - Len(s)) ELSE t

FencePrefix == <<TICK, TICK, TICK, Word("json")>>
FenceSuffix == <<TICK, TICK, TICK>>

(***************************************************************************)
(* json.loads: whitespace is [ \t\n\r]* only; one value; then end of text. *)
(* A result is [ok |-> FALSE] (JSONDecodeError) or [ok |-> TRUE, v, i]     *)
(* with i the index after the value.                                       *)
(***************************************************************************)
RECURSIVE SkipWs(_, _)
SkipWs(t, i) ==
  IF i <= Len(t) /\ t[i].k = "sp" THEN SkipWs(t, i + 1) ELSE i

Fail == [ok |-> FALSE]
Ok(v, i) == [ok |-> TRUE, v |-> v, i |-> i]

\* dict[key] = val: a repeated key keeps its first position, takes the last value
RECURSIVE DictSet(_, _, _)
DictSet(d, k, v) ==
  IF d = <<>> THEN <<KV(k, v)>>
  ELSE IF Head(d).key = k THEN <<KV(k, v)>> \o Tail(d)
  ELSE <<Head(d)>> \o DictSet(Tail(d), k, v)

RECURSIVE ParseValue(_, _)
RECURSIVE ParseElements(_, _, _)
RECURSIVE ParseMembers(_, _, _)

\* after '[' value ws: expects ',' ws value ws ... ']'
ParseElements(t, i, acc) ==
  LET r == ParseValue(t, i) IN
  IF ~r.ok THEN Fail
  ELSE LET j == SkipWs(t, r.i)
           acc2 == Append(acc, r.v) IN
       IF j > Len(t) THEN Fail
       ELSE IF t[j].k = "rbr" THEN Ok(JList(acc2), j + 1)
       ELSE IF t[j].k = "comma" THEN ParseElements(t, SkipWs(t, j + 1), acc2)
       ELSE Fail

\* at a member: string ws ':' ws value ws (',' ws member | '}')
ParseMembers(t, i, acc) ==
  IF i > Len(t) \/ t[i].k # "str" THEN Fail
  ELSE LET c == SkipWs(t, i + 1) IN
       IF c > Len(t) \/ t[c].k # "colon" THEN Fail
       ELSE LET r == ParseValue(t, SkipWs(t, c + 1)) IN
            IF ~r.ok THEN Fail
            ELSE LET j == SkipWs(t, r.i)
                     acc2 == DictSet(acc, t[i].s, r.v) IN
                 IF j > Len(t) THEN Fail
                 ELSE IF t[j].k = "rbc" THEN Ok(JDict(acc2), j + 1)
                 ELSE IF t[j].k = "comma" THEN ParseMembers(t, SkipWs(t, j + 1), acc2)
                 ELSE Fail

ParseValue(t, i) ==
  IF i > Len(t) THEN Fail
  ELSE CASE t[i].k = "str" -> Ok(JStr(t[i].s), i + 1)
         [] t[i].k = "num" -> Ok(JInt(t[i].s), i + 1)
         [] t[i].k = "word" /\ t[i].s = "null" -> Ok(JNone, i + 1)
         [] t[i].k = "lbr" ->
              LET j == SkipWs(t, i + 1) IN
              IF j <= Len(t) /\ t[j].k = "rbr" THEN Ok(JList(<<>>), j + 1)
              ELSE ParseElements(t, j, <<>>)
         [] t[i].k = "lbc" ->
              LET j == SkipWs(t, i + 1) IN
              IF j <= Len(t) /\ t[j].k = "rbc" THEN Ok(JDict(<<>>), j + 1)
              ELSE ParseMembers(t, j, <<>>)
         [] OTHER -> Fail

loads(t) ==
  LET r == ParseValue(t, SkipWs(t, 1)) IN
  IF ~r.ok THEN Fail
  ELSE IF SkipWs(t, r.i) # Len(t) + 1 THEN Fail
  ELSE Ok(r.v, r.i)

(***************************************************************************)
(* json.dumps(obj, indent=2): an empty container is "[]" / "{}", otherwise *)
(* each element goes on its own indented line; ", " never follows the last *)
(* element; the key separator is ": ".                                     *)
(***************************************************************************)
RECURSIVE dumps(_)
RECURSIVE DumpsElements(_)
RECURSIVE DumpsMembers(_)

DumpsElements(a) ==
  IF Len(a) = 1 THEN dumps(a[1])
  ELSE dumps(Head(a)) \o <<COMMA, SP>> \o DumpsElements(Tail(a))

DumpsMembers(d) ==
  LET m == <<StrLit(Head(d).key), COLON, SP>> \o dumps(Head(d).val) IN
  IF Len(d) = 1 THEN m
  ELSE m \o <<COMMA, SP>> \o DumpsMembers(Tail(d))

dumps(v) ==
  CASE v.t = "str" -> <<StrLit(v.s)>>
    [] v.t = "int" -> <<NumLit(v.s)>>
    [] v.t = "NoneType" -> <<Word("null")>>
    [] v.t = "list" ->
         IF v.a = <<>> THEN <<LBR, RBR>>
         ELSE <<LBR, SP>> \o DumpsElements(v.a) \o <<SP, RBR>>
    [] v.t = "dict" ->
         IF v.d = <<>> THEN <<LBC, RBC>>
         ELSE <<LBC, SP>> \o DumpsMembers(v.d) \o <<SP, RBC>>


(***************************************************************************)
(* pydantic models (server.py:94-112).  A validation result is             *)
(* [errors |-> <<[loc, type], ...>>, value |-> the model] ; value is       *)
(* meaningful only when errors is empty.  Keys the model does not declare  *)
(* are ignored (model_config default extra = "ignore").                    *)
(***************************************************************************)
Err(loc, type) == [loc |-> loc, type |-> type]

RECURSIVE Flatten(_)
Flatten(ss) == IF ss = <<>> THEN <<>> ELSE Head(ss) \o Flatten(Tail(ss))

Has(d, k) == \E i \in 1..Len(d) : d[i].key = k
Get(d, k) == d[CHOOSE i \in 1..Len(d) : d[i].key = k].val

\* variant: a number is accepted and kept for a  str  field
StrFieldCoerce(d, k, loc) ==
  IF ~Has(d, k) THEN <<Err(loc \o <<k>>, "missing")>>
  ELSE IF Get(d, k).t \notin {"str", "int"} THEN <<Err(loc \o <<k>>, "string_type")>>
  ELSE <<>>

\* a field annotated  <name>: str
StrField(d, k, loc) ==
  IF ~Has(d, k) THEN <<Err(loc \o <<k>>, "missing")>>
  ELSE IF Get(d, k).t # "str" THEN <<Err(loc \o <<k>>, "string_type")>>
  ELSE <<>>

WishlistItem(name, description, productId) ==
  [name |-> name, description |-> description, productId |-> productId]

\* variant: keys the model does not declare are kept (extra = "allow")
OutfitItemAllowExtra(v, loc) ==
  IF v.t # "dict" THEN [errors |-> <<Err(loc, "model_type")>>, value |-> <<>>]
  ELSE LET e == StrField(v.d, "name", loc) \o StrField(v.d, "productId", loc)
           keys == {v.d[i].key : i \in 1..Len(v.d)} IN
       [errors |-> e,
        value  |-> IF e = <<>> THEN [k \in keys |-> Get(v.d, k).s] ELSE <<>>]

OutfitItem(v, loc) ==
  IF v.t # "dict" THEN [errors |-> <<Err(loc, "model_type")>>, value |-> <<>>]
  ELSE LET e == StrField(v.d, "name", loc) \o StrField(v.d, "productId", loc) IN
       [errors |-> e,
        value  |-> IF e = <<>>
                   THEN [name |-> Get(v.d, "name").s, productId |-> Get(v.d, "productId").s]
                   ELSE <<>>]

\* a field annotated  items: list[OutfitItem]
ItemsField(v, loc) ==
  IF v.t # "list" THEN [errors |-> <<Err(loc, "list_type")>>, value |-> <<>>]
  ELSE LET rs == [j \in 1..Len(v.a) |-> OutfitItem(v.a[j], loc \o <<ToString(j - 1)>>)] IN
       [errors |-> Flatten([j \in 1..Len(v.a) |-> rs[j].errors]),
        value  |-> [j \in 1..Len(v.a) |-> rs[j].value]]

\* variant: outfitId is Optional with default ""
OutfitIdOptional(v, loc) ==
  IF v.t # "dict" THEN [errors |-> <<Err(loc, "model_type")>>, value |-> <<>>]
  ELSE LET r2 == IF Has(v.d, "items")
                 THEN ItemsField(Get(v.d, "items"), loc \o <<"items">>)
                 ELSE [errors |-> <<Err(loc \o <<"items">>, "missing")>>, value |-> <<>>] IN
       [errors |-> r2.errors,
        value  |-> IF r2.errors = <<>>
                   THEN [outfitId |-> IF Has(v.d, "outfitId") /\ Get(v.d, "outfitId").t = "str"
                                      THEN Get(v.d, "outfitId").s ELSE "",
                         items |-> r2.value]
                   ELSE <<>>]

Outfit(v, loc) ==
  IF v.t # "dict" THEN [errors |-> <<Err(loc, "model_type")>>, value |-> <<>>]
  ELSE LET e1 == StrField(v.d, "outfitId", loc)
           r2 == IF Has(v.d, "items")
                 THEN ItemsField(Get(v.d, "items"), loc \o <<"items">>)
                 ELSE [errors |-> <<Err(loc \o <<"items">>, "missing")>>, value |-> <<>>]
           e  == e1 \o r2.errors IN
       [errors |-> e,
        value  |-> IF e = <<>>
                   THEN [outfitId |-> Get(v.d, "outfitId").s, items |-> r2.value]
                   ELSE <<>>]

\* a field annotated  outfits: list[Outfit]
OutfitsField(v, loc) ==
  IF v.t # "list" THEN [errors |-> <<Err(loc, "list_type")>>, value |-> <<>>]
  ELSE LET rs == [i \in 1..Len(v.a) |-> Outfit(v.a[i], loc \o <<ToString(i - 1)>>)] IN
       [errors |-> Flatten([i \in 1..Len(v.a) |-> rs[i].errors]),
        value  |-> [i \in 1..Len(v.a) |-> rs[i].value]]

\* variant: the outfits are returned last first
OutfitsResponseReranked(outfits_data) ==
  LET r == OutfitsField(outfits_data, <<"outfits">>) IN
  [errors |-> r.errors,
   value  |-> IF r.errors = <<>>
              THEN [outfits |-> [i \in 1..Len(r.value) |-> r.value[Len(r.value) + 1 - i]]]
              ELSE <<>>]

\* OutfitsResponse(outfits=outfits_data)
OutfitsResponse(outfits_data) ==
  LET r == OutfitsField(outfits_data, <<"outfits">>) IN
  [errors |-> r.errors,
   value  |-> IF r.errors = <<>> THEN [outfits |-> r.value] ELSE <<>>]

\* str(ValidationError): the error count, the model name, then one entry per error
RECURSIVE Join(_, _)
Join(ss, sep) ==
  IF ss = <<>> THEN ""
  ELSE IF Len(ss) = 1 THEN ss[1]
  ELSE ss[1] \o sep \o Join(Tail(ss), sep)

ValidationErrorStr(errors) ==
  ToString(Len(errors)) \o " validation error(s) for OutfitsResponse; " \o
  Join([i \in 1..Len(errors) |->
          Join(errors[i].loc, ".") \o " [type=" \o errors[i].type \o "]"], "; ")

(***************************************************************************)
(* ask_gemini (server.py:117-203)                                          *)
(***************************************************************************)
Text(s) == Tok("text", s)

\* variant: the description is left out of the prompt
ItemDictNoDescription(item) ==
  JDict(<<KV("name", JStr(item.name)),
          KV("productId", JStr(item.productId))>>)

\* item.dict(): the declared fields in declaration order
ItemDict(item) ==
  JDict(<<KV("name", JStr(item.name)),
          KV("description", JStr(item.description)),
          KV("productId", JStr(item.productId))>>)

wishlist_json_str(wishlist_items) ==
  dumps(JList([i \in 1..Len(wishlist_items) |-> ItemDict(wishlist_items[i])]))

\* the f-string of lines 125-187
BuildPrompt(wishlist_items) ==
  <<Text("You are an expert fashion stylist AI assistant."),
    Text("You MUST follow these rules strictly:"),
    Text("The output JSON array must conform to the following structure:"),
    Text("Here is an example:"),
    Text("Now, create outfits based on this wishlist:"),
    Text("Wishlist:")>>
  \o wishlist_json_str(wishlist_items)
  \o <<Text("Your Response:")>>

\* an exception is [cls, str]; str is what str(e) gives
Exception(cls, str) == [cls |-> cls, str |-> str]

\* fastapi.HTTPException(status_code, detail); Starlette's __str__ is
\* f"{status_code}: {detail}"
HTTPException(status_code, detail) ==
  [cls |-> "HTTPException", status_code |-> status_code, detail |-> detail,
   str |-> ToString(status_code) \o ": " \o detail]

\* What client.chat.completions.create does is the provider's choice:
\*   [kind |-> "raise", exc]          the call raises
\*   [kind |-> "response", choices]   a completion; choices[i] is the message
\*                                    content: [t |-> "str", text] or None
Raises(exc)     == [kind |-> "raise", exc |-> exc]
Completion(chs) == [kind |-> "response", choices |-> chs]
Content(text)   == [t |-> "str", text |-> text]

\* lines 189-203: [raised |-> TRUE, exc] or [raised |-> FALSE, value]
AskGeminiReturn(o) ==
  IF o.kind = "raise" THEN [raised |-> TRUE, exc |-> o.exc]
  ELSE IF o.choices = <<>>
       THEN [raised |-> TRUE,
             exc |-> HTTPException(500, "Gemini API returned an empty response.")]
       ELSE [raised |-> FALSE, value |-> o.choices[1]]

(***************************************************************************)
(* build_outfits (server.py:208-240)                                       *)
(***************************************************************************)
JSONDecodeMessage == "Failed to decode JSON from Gemini's response."
SchemaMismatchPrefix == "Gemini's JSON output does not match the required format: "

Unset == [t |-> "unset"]

\* what FastAPI sends for an HTTPException leaving the endpoint
ErrorResponse(e) == [status_code |-> e.status_code, content |-> [detail |-> e.detail]]

\* variant: no clause for json.JSONDecodeError
ExceptClausesNoDecode(exc) ==
  IF exc.cls = "ValidationError"
  THEN HTTPException(500, SchemaMismatchPrefix \o exc.str)
  ELSE HTTPException(500, exc.str)

\* the except clauses, in order (lines 227-240)
ExceptClauses(exc) ==
  IF exc.cls = "JSONDecodeError" THEN HTTPException(500, JSONDecodeMessage)
  ELSE IF exc.cls = "ValidationError"
       THEN HTTPException(500, SchemaMismatchPrefix \o exc.str)
  ELSE HTTPException(500, exc.str)

\* variant: the reply is not stripped before the markers are removed
CleanJsonStrNoStrip(outfits_raw_str) ==
  removesuffix(removeprefix(outfits_raw_str, FencePrefix), FenceSuffix)

\* line 219
CleanJsonStr(outfits_raw_str) ==
  removesuffix(removeprefix(strip(outfits_raw_str), FencePrefix), FenceSuffix)

\* The body of the try block after the provider has answered with o.  The
\* result carries the response and the locals the run has bound; trace lists
\* the steps of lines 219-223 that ran.
BuildOutfits(o) ==
  LET a == AskGeminiReturn(o) IN
  IF a.raised
  THEN [response |-> ErrorResponse(ExceptClauses(a.exc)),
        clean_json_str |-> <<>>, outfits_data |-> Unset, trace |-> <<>>]
  ELSE IF a.value.t # "str"
  THEN [response |-> ErrorResponse(ExceptClauses(
                       Exception("AttributeError",
                                 "'NoneType' object has no attribute 'strip'"))),
        clean_json_str |-> <<>>, outfits_data |-> Unset, trace |-> <<"strip">>]
  ELSE LET clean == CleanJsonStr(a.value.text)
           p == loads(clean) IN
       IF ~p.ok
       THEN [response |-> ErrorResponse(ExceptClauses(
                            Exception("JSONDecodeError", "Expecting value"))),
             clean_json_str |-> clean, outfits_data |-> Unset,
             trace |-> <<"strip", "loads">>]
       ELSE LET validated_response == OutfitsResponse(p.v) IN
            IF validated_response.errors # <<>>
            THEN [response |-> ErrorResponse(ExceptClauses(
                                 Exception("ValidationError",
                                           ValidationErrorStr(validated_response.errors)))),
                  clean_json_str |-> clean, outfits_data |-> p.v,
                  trace |-> <<"strip", "loads", "OutfitsResponse">>]
            ELSE [response |-> [status_code |-> 200,
                                content |-> validated_response.value],
                  clean_json_str |-> clean, outfits_data |-> p.v,
                  trace |-> <<"strip", "loads", "OutfitsResponse">>]

(***************************************************************************)
(* Inputs: the wishlists a caller posts and what the provider may do.      *)
(***************************************************************************)
MaxWishlist == 2
MaxOutfits  == 2
MaxItems    == 2

ItemNames    == <<"Classic Black T-shirt", "Slim-fit Chinos", "Denim Jacket", "White Sneakers">>
Descriptions == <<"100% cotton crewneck", "Beige color, stretch fabric", "Washed blue", "Leather">>
ProductIds   == <<"B-TS-001", "P-CH-005", "J-DN-002", "S-WS-009">>
OutfitIds    == <<"outfit_1", "outfit_2", "outfit_3", "outfit_4">>

At(pool, i) == pool[((i - 1) % Len(pool)) + 1]
Reverse(q) == [i \in 1..Len(q) |-> q[Len(q) + 1 - i]]

WishItem(i) == WishlistItem(At(ItemNames, i), At(Descriptions, i), At(ProductIds, i))

Wishlists ==
  UNION {{[i \in 1..n |-> WishItem(i)], Reverse([i \in 1..n |-> WishItem(i)])}
         : n \in 0..MaxWishlist}

\* items as the provider may write them
GoodItem(i) == JDict(<<KV("name", JStr(At(ItemNames, i))),
                       KV("productId", JStr(At(ProductIds, i)))>>)
EchoItem(i) == JDict(<<KV("name", JStr(At(ItemNames, i))),
                       KV("description", JStr(At(Descriptions, i))),
                       KV("productId", JStr(At(ProductIds, i)))>>)

ItemLists ==
  UNION {{[i \in 1..m |-> GoodItem(i)],
          Reverse([i \in 1..m |-> GoodItem(i)]),
          [i \in 1..m |-> GoodItem(1)],
          [i \in 1..m |-> EchoItem(i)]} : m \in 0..MaxItems}

OutfitDoc(id, items) == JDict(<<KV("outfitId", JStr(id)), KV("items", JList(items))>>)

\* replies that conform to the schema: one outfit with each item list, then
\* several outfits in listed order, in reverse order, and repeated
OutfitAt(i) == OutfitDoc(At(OutfitIds, i), [j \in 1..MaxItems |-> GoodItem(i + j - 1)])

ConformingDocs ==
  {JList(<<>>)}
  \cup {JList(<<OutfitDoc("outfit_1", L)>>) : L \in ItemLists}
  \cup UNION {{JList([i \in 1..n |-> OutfitAt(i)]),
               JList(Reverse([i \in 1..n |-> OutfitAt(i)])),
               JList([i \in 1..n |-> OutfitAt(1)])} : n \in 2..MaxOutfits}
  \cup {JList(<<OutfitDoc("", <<GoodItem(1)>>)>>),
        JList(<<OutfitDoc("outfit_1", <<GoodItem(1)>>), OutfitDoc("", <<>>)>>),
        JList(<<JDict(<<KV("items", JList(<<GoodItem(2)>>)), KV("outfitId", JStr("outfit_2")),
                        KV("style", JStr("casual"))>>)>>),
        JList(<<JDict(<<KV("outfitId", JInt("7")), KV("outfitId", JStr("outfit_1")),
                        KV("items", JList(<<>>))>>)>>)}

\* valid JSON that does not conform
NonConformingDocs ==
  {JDict(<<KV("outfits", JList(<<>>))>>), JStr("outfit_1"), JInt("5"), JNone, JDict(<<>>),
   JList(<<JStr("outfit_1")>>),
   JList(<<JList(<<>>)>>),
   JList(<<JDict(<<KV("outfitId", JStr("outfit_1"))>>)>>),
   JList(<<JDict(<<KV("items", JList(<<GoodItem(1)>>))>>)>>),
   JList(<<JDict(<<KV("outfitId", JInt("1")), KV("items", JList(<<GoodItem(1)>>))>>)>>),
   JList(<<JDict(<<KV("outfitId", JNone), KV("items", JList(<<>>))>>)>>),
   JList(<<JDict(<<KV("outfitId", JStr("outfit_1")), KV("items", GoodItem(1))>>)>>),
   JList(<<JDict(<<KV("outfitId", JStr("outfit_1")), KV("items", JNone)>>)>>),
   JList(<<JDict(<<KV("outfit_id", JStr("outfit_1")), KV("items", JList(<<>>))>>)>>),
   JList(<<OutfitDoc("outfit_1", <<JDict(<<KV("name", JStr("Denim Jacket"))>>)>>)>>),
   JList(<<OutfitDoc("outfit_1", <<JDict(<<KV("productId", JStr("J-DN-002"))>>)>>)>>),
   JList(<<OutfitDoc("outfit_1", <<JDict(<<KV("name", JInt("3")),
                                           KV("productId", JStr("J-DN-002"))>>)>>)>>),
   JList(<<OutfitDoc("outfit_1", <<JDict(<<KV("name", JStr("Denim Jacket")),
                                           KV("productId", JNone)>>)>>)>>),
   JList(<<OutfitDoc("outfit_1", <<JStr("Denim Jacket")>>)>>),
   JList(<<OutfitDoc("outfit_1", <<GoodItem(1), JDict(<<>>)>>)>>),
   JList(<<OutfitDoc("outfit_1", <<GoodItem(1)>>), JDict(<<KV("outfitId", JStr("outfit_2"))>>)>>)}

DropLast(t) == SubSeq(t, 1, Len(t) - 1)

\* text that is not JSON
MalformedTexts ==
  {<<>>,
   <<Word("not"), SP, Word("json")>>,
   <<Word("Here"), SP, Word("are"), SP, Word("your"), SP, Word("outfits"), COLON, SP>>
     \o dumps(JList(<<OutfitDoc("outfit_1", <<GoodItem(1)>>)>>)),
   DropLast(dumps(JList(<<OutfitDoc("outfit_1", <<GoodItem(1)>>)>>))),
   <<LBR>> \o dumps(OutfitDoc("outfit_1", <<>>)) \o <<COMMA, RBR>>,
   <<LBR, RBR, SP, LBR, RBR>>,
   <<LBC, StrLit("outfitId"), StrLit("outfit_1"), RBC>>,
   <<LBR, Word("None"), RBR>>}

Bodies ==
  {dumps(v) : v \in ConformingDocs \cup NonConformingDocs} \cup MalformedTexts

Fenced(body) == FencePrefix \o body \o FenceSuffix

\* the shapes a reply takes around a body
Decorated(body) == {body, Fenced(body)}

SpecialBodies ==
  {dumps(JList(<<OutfitDoc("outfit_1", <<GoodItem(1)>>)>>)),
   <<Word("not"), SP, Word("json")>>}

SpecialTexts ==
  UNION {{<<SP>> \o body \o <<SP>>,
          <<NBSP>> \o body,
          body \o <<NBSP>>,
          <<SP>> \o Fenced(body) \o <<SP>>,
          <<NBSP>> \o Fenced(body) \o <<NBSP>>,
          FencePrefix \o <<SP>> \o body \o <<SP>> \o FenceSuffix,
          Fenced(<<NBSP>> \o body),
          Fenced(Fenced(body)),
          FencePrefix \o body,
          body \o FenceSuffix,
          FenceSuffix \o <<SP>> \o body \o <<SP>> \o FenceSuffix,
          Fenced(body) \o <<SP, Word("Enjoy")>>}
         : body \in SpecialBodies}

ReplyTexts == UNION {Decorated(body) : body \in Bodies} \cup SpecialTexts

ProviderExceptions ==
  {Exception("APIConnectionError", "Connection error."),
   Exception("AuthenticationError", "Error code: 401 - API key not valid"),
   Exception("RateLimitError", "Error code: 429 - quota exceeded"),
   Exception("APITimeoutError", "Request timed out."),
   Exception("JSONDecodeError", "Expecting value: line 1 column 1 (char 0)")}

ProviderOutcomes ==
  {Raises(e) : e \in ProviderExceptions}
  \cup {Completion(<<>>), Completion(<<JNone>>),
        Completion(<<Content(dumps(JList(<<OutfitDoc("outfit_1", <<GoodItem(1)>>)>>))),
                     Content(<<Word("not"), SP, Word("json")>>)>>)}
  \cup {Completion(<<Content(t)>>) : t \in ReplyTexts}

(***************************************************************************)
(* The server: one event loop, requests r1 and r2.                         *)
(***************************************************************************)
Requests == {"r1", "r2"}
NoRequest == "none"
NoResponse == [status_code |-> 0, content |-> <<>>]

VARIABLES pc, wishlist, prompt, calls, reply, clean_json_str, outfits_data,
          trace, response, running

vars == <<pc, wishlist, prompt, calls, reply, clean_json_str, outfits_data,
          trace, response, running>>

Init ==
  /\ pc = [r \in Requests |-> "idle"]
  /\ wishlist = [r \in Requests |-> <<>>]
  /\ prompt = [r \in Requests |-> <<>>]
  /\ calls = [r \in Requests |-> 0]
  /\ reply = [r \in Requests |-> Unset]
  /\ clean_json_str = [r \in Requests |-> <<>>]
  /\ outfits_data = [r \in Requests |-> Unset]
  /\ trace = [r \in Requests |-> <<>>]
  /\ response = [r \in Requests |-> NoResponse]
  /\ running = NoRequest

\* POST /build-outfits with a body the framework has validated as a Wishlist
Post(r, w) ==
  /\ pc[r] = "idle"
  /\ pc' = [pc EXCEPT ![r] = "queued"]
  /\ wishlist' = [wishlist EXCEPT ![r] = w]
  /\ UNCHANGED <<prompt, calls, reply, clean_json_str, outfits_data, trace,
                 response, running>>

\* build_outfits runs up to client.chat.completions.create (line 189).  The
\* client is the synchronous OpenAI client and the call is not awaited: the
\* coroutine keeps the event loop until the call returns.
CallProvider(r) ==
  /\ pc[r] = "queued"
  /\ running = NoRequest
  /\ running' = r
  /\ pc' = [pc EXCEPT ![r] = "calling"]
  /\ prompt' = [prompt EXCEPT ![r] = BuildPrompt(wishlist[r])]
  /\ calls' = [calls EXCEPT ![r] = @ + 1]
  /\ UNCHANGED <<wishlist, reply, clean_json_str, outfits_data, trace, response>>

\* the call returns or raises; build_outfits runs to its end and its frame
\* (wishlist, prompt) is released; what the run bound and answered stays
\* until the response is sent
ProviderReturns(r, o) ==
  /\ pc[r] = "calling"
  /\ running = r
  /\ LET b == BuildOutfits(o) IN
       /\ response' = [response EXCEPT ![r] = b.response]
       /\ clean_json_str' = [clean_json_str EXCEPT ![r] = b.clean_json_str]
       /\ outfits_data' = [outfits_data EXCEPT ![r] = b.outfits_data]
       /\ trace' = [trace EXCEPT ![r] = b.trace]
  /\ reply' = [reply EXCEPT ![r] = o]
  /\ pc' = [pc EXCEPT ![r] = "responded"]
  /\ running' = NoRequest
  /\ wishlist' = [wishlist EXCEPT ![r] = <<>>]
  /\ prompt' = [prompt EXCEPT ![r] = <<>>]
  /\ UNCHANGED calls

\* the response is written to the connection; the request is over
Send(r) ==
  /\ pc[r] = "responded"
  /\ running = NoRequest
  /\ pc' = [pc EXCEPT ![r] = "idle"]
  /\ calls' = [calls EXCEPT ![r] = 0]
  /\ reply' = [reply EXCEPT ![r] = Unset]
  /\ clean_json_str' = [clean_json_str EXCEPT ![r] = <<>>]
  /\ outfits_data' = [outfits_data EXCEPT ![r] = Unset]
  /\ trace' = [trace EXCEPT ![r] = <<>>]
  /\ response' = [response EXCEPT ![r] = NoResponse]
  /\ UNCHANGED <<wishlist, prompt, running>>

Next ==
  \/ \E r \in Requests, w \in Wishlists : Post(r, w)
  \/ \E r \in Requests : CallProvider(r)
  \/ \E r \in Requests, o \in ProviderOutcomes : ProviderReturns(r, o)
  \/ \E r \in Requests : Send(r)

Spec == Init /\ [][Next]_vars

TypeOK ==
  /\ \A r \in Requests : pc[r] \in {"idle", "queued", "calling", "responded"}
  /\ running \in Requests \cup {NoRequest}

(***************************************************************************)
(* Properties                                                              *)
(***************************************************************************)
Responded(r) == pc[r] = "responded"

\* the provider answered r with a completion whose first choice is text
HasText(r) ==
  /\ Responded(r)
  /\ reply[r].kind = "response"
  /\ reply[r].choices # <<>>
  /\ reply[r].choices[1].t = "str"

RawText(r) == reply[r].choices[1].text

\* the reply of r after the outer trim and the removal of the markers, decoded
Decoded(r) == loads(removesuffix(removeprefix(strip(RawText(r)), FencePrefix), FenceSuffix))

IsStrAt(d, k) == Has(d, k) /\ Get(d, k).t = "str"

IsConformingItem(v) ==
  v.t = "dict" /\ IsStrAt(v.d, "name") /\ IsStrAt(v.d, "productId")

IsConformingOutfit(v) ==
  /\ v.t = "dict"
  /\ IsStrAt(v.d, "outfitId")
  /\ Has(v.d, "items")
  /\ Get(v.d, "items").t = "list"
  /\ \A j \in 1..Len(Get(v.d, "items").a) : IsConformingItem(Get(v.d, "items").a[j])

IsConforming(v) ==
  v.t = "list" /\ \A i \in 1..Len(v.a) : IsConformingOutfit(v.a[i])

\* the outfits of a conforming array, field by field
PlainItems(a) ==
  [j \in 1..Len(a) |-> [name |-> Get(a[j].d, "name").s,
                        productId |-> Get(a[j].d, "productId").s]]

PlainOutfits(v) ==
  [i \in 1..Len(v.a) |-> [outfitId |-> Get(v.a[i].d, "outfitId").s,
                          items |-> PlainItems(Get(v.a[i].d, "items").a)]]

StartsWithStr(d, prefix) ==
  Len(d) >= Len(prefix) /\ SubSeq(d, 1, Len(prefix)) = prefix

\* C1: a reply that decodes, after cleaning, to an array conforming to the
\* schema is answered 200 with exactly the outfits of that array: same
\* outfits, same order, same outfitId, same (name, productId) items, nothing
\* added, removed, reordered or deduplicated.
C1_ConformingReplyReturnedUnchanged ==
  \A r \in Requests :
    (HasText(r) /\ Decoded(r).ok /\ IsConforming(Decoded(r).v))
      => response[r] = [status_code |-> 200,
                        content |-> [outfits |-> PlainOutfits(Decoded(r).v)]]

C1_Witness ==
  \E r \in Requests :
    /\ HasText(r)
    /\ startswith(RawText(r), FencePrefix)
    /\ response[r].status_code = 200
    /\ Len(response[r].content.outfits) >= 2
    /\ response[r].content.outfits[1] = response[r].content.outfits[2]
    /\ Len(response[r].content.outfits[1].items) >= 2

\* C2: a reply that is valid JSON after cleaning but does not conform to the
\* schema is answered 500 with the schema-mismatch prefix followed by a
\* diagnostic; never 200, never the JSON-decode message.
C2_NonConformingReplyIsSchemaMismatch ==
  \A r \in Requests :
    (HasText(r) /\ Decoded(r).ok /\ ~IsConforming(Decoded(r).v))
      => /\ response[r].status_code = 500
         /\ StartsWithStr(response[r].content.detail, SchemaMismatchPrefix)
         /\ Len(response[r].content.detail) > Len(SchemaMismatchPrefix)
         /\ response[r].content.detail # JSONDecodeMessage

C2_Witness ==
  \E r \in Requests :
    /\ HasText(r)
    /\ outfits_data[r] = JList(<<JDict(<<KV("outfitId", JInt("1")),
                                         KV("items", JList(<<GoodItem(1)>>))>>)>>)
    /\ response[r].status_code = 500
    /\ StartsWithStr(response[r].content.detail, SchemaMismatchPrefix)

\* C3: whenever the provider call raises, whatever the exception, the answer
\* is 500 with detail the text of that exception, and the provider was
\* invoked once.
C3_ProviderExceptionIsReported ==
  \A r \in Requests :
    (Responded(r) /\ reply[r].kind = "raise")
      => /\ response[r] = [status_code |-> 500,
                           content |-> [detail |-> reply[r].exc.str]]
         /\ calls[r] = 1

\* C4: a reply that is not valid JSON after cleaning is answered 500 with
\* exactly the JSON-decode message, and schema validation is not attempted.
C4_MalformedReplyIsDecodeError ==
  \A r \in Requests :
    (HasText(r) /\ ~Decoded(r).ok)
      => /\ response[r] = [status_code |-> 500,
                           content |-> [detail |-> JSONDecodeMessage]]
         /\ \A i \in 1..Len(trace[r]) : trace[r][i] # "OutfitsResponse"
         /\ outfits_data[r] = Unset

C4_Witness ==
  \E r \in Requests :
    /\ HasText(r)
    /\ RawText(r) = Fenced(<<Word("not"), SP, Word("json")>>)
    /\ clean_json_str[r] = <<Word("not"), SP, Word("json")>>
    /\ response[r].content = [detail |-> JSONDecodeMessage]

\* a text without a backtick
NoFenceMarkers(t) == \A i \in 1..Len(t) : t[i].k # "tick"

OuterWs == {<<>>, <<SP>>, <<NBSP>>}

\* the body between a leading and a trailing marker, with or without
\* whitespace around the whole
Wrappings(body) == {l \o Fenced(body) \o t : l \in OuterWs, t \in OuterWs}

RECURSIVE JsonTrimLeft(_)
JsonTrimLeft(t) == IF t # <<>> /\ Head(t).k = "sp" THEN JsonTrimLeft(Tail(t)) ELSE t

RECURSIVE JsonTrimRight(_)
JsonTrimRight(t) ==
  IF t # <<>> /\ t[Len(t)].k = "sp" THEN JsonTrimRight(SubSeq(t, 1, Len(t) - 1)) ELSE t

\* every whitespace character at either end of t is JSON whitespace
OuterWsIsJson(t) ==
  LET u == JsonTrimRight(JsonTrimLeft(t)) IN
  u = <<>> \/ (Head(u).k # "nbsp" /\ u[Len(u)].k # "nbsp")

\* the outcome of decoding for two requests is the same: the same value, or
\* both failed
SameDecoding(r, q) ==
  /\ outfits_data[r] = outfits_data[q]
  /\ (response[r].content = [detail |-> JSONDecodeMessage])
       <=> (response[q].content = [detail |-> JSONDecodeMessage])

\* C5 as stated: a body without markers and the same body wrapped in a
\* leading and a trailing marker decode to the same value or both fail.
C5_WrappedParsesAsBare ==
  \A r, q \in Requests :
    (HasText(r) /\ HasText(q) /\ NoFenceMarkers(RawText(r))
       /\ RawText(q) \in Wrappings(RawText(r)))
      => SameDecoding(r, q)

\* C5 amended: the same, for a body whose whitespace at either end is JSON
\* whitespace; and a doubly wrapped body loses one marker pair only.
C5_WrappedParsesAsBareJsonWs ==
  /\ \A r, q \in Requests :
       (HasText(r) /\ HasText(q) /\ NoFenceMarkers(RawText(r))
          /\ OuterWsIsJson(RawText(r))
          /\ RawText(q) \in Wrappings(RawText(r)))
         => SameDecoding(r, q)
  /\ \A r \in Requests :
       HasText(r) =>
         \A body \in SpecialBodies :
           RawText(r) \in Wrappings(Fenced(body))
             => /\ clean_json_str[r] = Fenced(body)
                /\ outfits_data[r] = Unset

C5_Witness ==
  \E r, q \in Requests :
    /\ HasText(r) /\ HasText(q)
    /\ NoFenceMarkers(RawText(r))
    /\ RawText(r) # <<>> /\ Head(RawText(r)).k = "sp"
    /\ RawText(q) = Fenced(RawText(r))
    /\ outfits_data[r] # Unset
    /\ outfits_data[r] = outfits_data[q]

\* C6: while one request waits for its provider call, the handling of
\* another request can proceed to its own provider call.
C6_OtherRequestsProceedDuringCall ==
  \A r, q \in Requests :
    (r # q /\ pc[r] = "calling" /\ pc[q] = "queued") => ENABLED CallProvider(q)

\* C7: in every 200 response each item of each outfit carries the fields name
\* and productId only.
C7_ItemsCarryOnlyNameAndProductId ==
  \A r \in Requests :
    (Responded(r) /\ response[r].status_code = 200)
      => \A i \in 1..Len(response[r].content.outfits) :
           \A j \in 1..Len(response[r].content.outfits[i].items) :
             DOMAIN response[r].content.outfits[i].items[j] = {"name", "productId"}

C7_Witness ==
  \E r \in Requests :
    /\ Responded(r)
    /\ response[r].status_code = 200
    /\ outfits_data[r].a # <<>>
    /\ Get(outfits_data[r].a[1].d, "items").a # <<>>
    /\ Has(Get(outfits_data[r].a[1].d, "items").a[1].d, "description")

\* C8 as stated: in every 200 response every outfitId is a non-empty string.
C8_OutfitIdNonEmpty ==
  \A r \in Requests :
    (Responded(r) /\ response[r].status_code = 200)
      => \A i \in 1..Len(response[r].content.outfits) :
           response[r].content.outfits[i].outfitId # ""

\* C8 amended: in every 200 response every outfitId is the string the
\* provider gave for that outfit, which may be empty; a reply with an outfit
\* whose outfitId is absent or not a string is never answered 200.
C8_OutfitIdIsProviderString ==
  \A r \in Requests :
    (Responded(r) /\ response[r].status_code = 200)
      => /\ outfits_data[r].t = "list"
         /\ Len(response[r].content.outfits) = Len(outfits_data[r].a)
         /\ \A i \in 1..Len(outfits_data[r].a) :
              /\ outfits_data[r].a[i].t = "dict"
              /\ IsStrAt(outfits_data[r].a[i].d, "outfitId")
              /\ response[r].content.outfits[i].outfitId
                   = Get(outfits_data[r].a[i].d, "outfitId").s

C8_Witness ==
  \E r \in Requests :
    /\ Responded(r)
    /\ response[r].status_code = 200
    /\ \E i \in 1..Len(response[r].content.outfits) :
         response[r].content.outfits[i].outfitId = ""

\* the serialization of one wishlist item: its three fields, in order
ItemSerialization(item) ==
  <<StrLit("name"), COLON, SP, StrLit(item.name), COMMA, SP,
    StrLit("description"), COLON, SP, StrLit(item.description), COMMA, SP,
    StrLit("productId"), COLON, SP, StrLit(item.productId)>>

\* the first index >= from at which s occurs in t, or 0
RECURSIVE FirstOccurrence(_, _, _)
FirstOccurrence(t, s, from) ==
  IF from + Len(s) - 1 > Len(t) THEN 0
  ELSE IF SubSeq(t, from, from + Len(s) - 1) = s THEN from
  ELSE FirstOccurrence(t, s, from + 1)

\* the items' serializations occur in t one after the other, from index from
RECURSIVE OccurInOrder(_, _, _)
OccurInOrder(t, items, from) ==
  IF items = <<>> THEN TRUE
  ELSE LET s == ItemSerialization(Head(items))
           i == FirstOccurrence(t, s, from) IN
       i # 0 /\ OccurInOrder(t, Tail(items), i + Len(s))

\* C9: for a non-empty wishlist the prompt sent to the provider contains the
\* fixed rules, the output-structure block and the worked example, and the
\* JSON serialization of every item's name, description and productId in
\* input order; between "Wishlist:" and "Your Response:" it is a JSON text
\* that decodes to exactly the input items.
C9_PromptCarriesWishlist ==
  \A r \in Requests :
    (pc[r] = "calling" /\ wishlist[r] # <<>>)
      => LET t == prompt[r]
             a == FirstOccurrence(t, <<Text("Wishlist:")>>, 1)
             z == FirstOccurrence(t, <<Text("Your Response:")>>, 1)
             section == loads(SubSeq(t, a + 1, z - 1)) IN
         /\ \A fixed \in {"You MUST follow these rules strictly:",
                          "The output JSON array must conform to the following structure:",
                          "Here is an example:"} :
              \E i \in 1..Len(t) : t[i] = Text(fixed)
         /\ OccurInOrder(t, wishlist[r], 1)
         /\ a # 0 /\ z > a
         /\ section.ok
         /\ section.v.t = "list"
         /\ Len(section.v.a) = Len(wishlist[r])
         /\ \A i \in 1..Len(wishlist[r]) :
              /\ section.v.a[i].t = "dict"
              /\ Len(section.v.a[i].d) = 3
              /\ Get(section.v.a[i].d, "name") = JStr(wishlist[r][i].name)
              /\ Get(section.v.a[i].d, "description") = JStr(wishlist[r][i].description)
              /\ Get(section.v.a[i].d, "productId") = JStr(wishlist[r][i].productId)

C9_Witness ==
  \E r \in Requests :
    /\ pc[r] = "calling"
    /\ Len(wishlist[r]) >= 2
    /\ wishlist[r][1] # WishItem(1)
    /\ OccurInOrder(prompt[r], wishlist[r], 1)

\* C10: when the provider returns no candidate completion the answer is 500
\* with detail "Gemini API returned an empty response.", and the reply is
\* neither stripped, decoded nor validated.
C10_EmptyResponseIsReported ==
  \A r \in Requests :
    (Responded(r) /\ reply[r].kind = "response" /\ reply[r].choices = <<>>)
      => /\ response[r] = [status_code |-> 500,
                           content |-> [detail |-> "Gemini API returned an empty response."]]
         /\ trace[r] = <<>>

====
